---- MODULE Spec2Model ----
(***************************************************************************)
(* tcm-uploader: the extraction-to-publication pipeline of the Trinity     *)
(* Catholic Media uploader (src/uploader).                                 *)
(*                                                                         *)
(* Text is modelled at character level: a Python str is a sequence of      *)
(* one-character strings, so that strip(), lower(), startswith(),          *)
(* replace() and the JSON decoder do what the Python code does.  The       *)
(* alphabet has no backslash, so JSON string escapes do not occur.         *)
(*                                                                         *)
(* Python values are tagged records [t |-> type, v |-> payload].           *)
(***************************************************************************)
EXTENDS Integers, Sequences, FiniteSets, TLC

VARIABLES
    \* --- st.session_state and the working directory ---------------------
    processed_data,       \* st.session_state.processed_data
    processing_complete,  \* st.session_state.processing_complete
    data_edited,          \* st.session_state.data_edited
    current_image_path,   \* st.session_state.current_image_path (or unset)
    uploaded_file,        \* the file held by the st.file_uploader widget
    disk_image,           \* the image stored in 'uploaded_image.jpg'
    record_image,         \* the image the stored record was extracted from
    env_config,           \* get_env_config(): the process environment
    sidebar,              \* render_sidebar_config() as the last button handler read it
    formatted_reply,      \* parse_and_format_gemini_output of each reply
    \* --- what the last script run did -----------------------------------
    last_op,              \* which handler ran last
    last_result,          \* its return value
    steps,                \* the stages the last processing run entered
    publisher_calls,      \* PinterestUploader.upload_pin calls of the run
    http_posts,           \* requests.post calls of the run
    \* --- the pure functions applied to drawn inputs ---------------------
    fn_in,                \* the input drawn for a function
    fn_out                \* its result, once applied

appVars == <<processed_data, processing_complete, data_edited,
             current_image_path, uploaded_file, disk_image, record_image,
             env_config, sidebar, formatted_reply, last_op, last_result, steps, publisher_calls,
             http_posts>>
fnVars == <<fn_in, fn_out>>
vars == <<appVars, fnVars>>

(***************************************************************************)
(* Python str primitives                                                   *)
(***************************************************************************)
Whitespace == {" ", "\n", "\t", "\r"}

\* index of the first character at or after i that is not whitespace
RECURSIVE lstrip_index(_, _)
lstrip_index(s, i) ==
    IF i <= Len(s) /\ s[i] \in Whitespace THEN lstrip_index(s, i + 1) ELSE i

\* index of the last character at or before i that is not whitespace
RECURSIVE rstrip_index(_, _)
rstrip_index(s, i) ==
    IF i >= 1 /\ s[i] \in Whitespace THEN rstrip_index(s, i - 1) ELSE i

strip(s) ==
    LET first == lstrip_index(s, 1)
        last  == rstrip_index(s, Len(s))
    IN  IF first > last THEN <<>> ELSE SubSeq(s, first, last)

UpperToLower ==
    ("A" :> "a") @@ ("B" :> "b") @@ ("C" :> "c") @@ ("D" :> "d") @@
    ("E" :> "e") @@ ("F" :> "f") @@ ("G" :> "g") @@ ("H" :> "h") @@
    ("I" :> "i") @@ ("J" :> "j") @@ ("K" :> "k") @@ ("L" :> "l") @@
    ("M" :> "m") @@ ("N" :> "n") @@ ("O" :> "o") @@ ("P" :> "p") @@
    ("Q" :> "q") @@ ("R" :> "r") @@ ("S" :> "s") @@ ("T" :> "t") @@
    ("U" :> "u") @@ ("V" :> "v") @@ ("W" :> "w") @@ ("X" :> "x") @@
    ("Y" :> "y") @@ ("Z" :> "z")

LowerChar(c) == IF c \in DOMAIN UpperToLower THEN UpperToLower[c] ELSE c

RECURSIVE lower(_)
lower(s) == IF s = <<>> THEN <<>> ELSE <<LowerChar(Head(s))>> \o lower(Tail(s))

startswith(s, prefix) ==
    Len(s) >= Len(prefix) /\ SubSeq(s, 1, Len(prefix)) = prefix

endswith(s, suffix) ==
    Len(s) >= Len(suffix) /\ SubSeq(s, Len(s) - Len(suffix) + 1, Len(s)) = suffix

\* str.find(old, i): where the first occurrence of old at or after i starts, or 0
find(s, old, i) ==
    LET hits == {j \in i..(Len(s) - Len(old) + 1) : SubSeq(s, j, j + Len(old) - 1) = old}
    IN  IF hits = {} THEN 0 ELSE CHOOSE j \in hits : \A h \in hits : j <= h

\* str.replace(old, new): every non-overlapping occurrence, left to right.
RECURSIVE replace_from(_, _, _, _)
replace_from(s, old, new, i) ==
    LET j == find(s, old, i)
    IN  IF j = 0 THEN SubSeq(s, i, Len(s))
        ELSE SubSeq(s, i, j - 1) \o new \o replace_from(s, old, new, j + Len(old))

replace(s, old, new) == replace_from(s, old, new, 1)

(***************************************************************************)
(* Python values                                                           *)
(***************************************************************************)
PyNone == [t |-> "None"]
PyStr(s) == [t |-> "str", v |-> s]
PyInt(digits) == [t |-> "int", v |-> digits]
PyBool(b) == [t |-> "bool", v |-> b]
PyList(xs) == [t |-> "list", v |-> xs]
PyDict(pairs) == [t |-> "dict", v |-> pairs]
AttributeError == [t |-> "AttributeError"]

\* bool(x) of a Python value
truthy(x) ==
    CASE x.t = "None" -> FALSE
      [] x.t = "str"  -> x.v # <<>>
      [] x.t = "int"  -> x.v \notin {<<"0">>, <<"-", "0">>}
      [] x.t = "bool" -> x.v
      [] x.t = "list" -> x.v # <<>>
      [] x.t = "dict" -> x.v # <<>>

\* dict.get(key, default)
dict_get(d, key, default) ==
    LET hit == {i \in 1..Len(d.v) : d.v[i].k = key}
    IN  IF hit = {} THEN default ELSE d.v[CHOOSE i \in hit : TRUE].v

\* d[key] = value, keeping the insertion order of a Python dict
dict_put(pairs, key, value) ==
    IF \E i \in 1..Len(pairs) : pairs[i].k = key
    THEN [i \in 1..Len(pairs) |->
            IF pairs[i].k = key THEN [k |-> key, v |-> value] ELSE pairs[i]]
    ELSE Append(pairs, [k |-> key, v |-> value])

(***************************************************************************)
(* config.py                                                               *)
(***************************************************************************)
DEFAULT_TITLE ==
    <<"T","r","i","n","i","t","y"," ","C","a","t","h","o","l","i","c"," ","M","e","d",
      "i","a">>

DEFAULT_DESCRIPTION ==
    <<"S","t","a","y"," ","i","n","s","p","i","r","e","d"," ","d","a","i","l","y","!",
      " ","F","o","l","l","o","w"," ","o","u","r"," ","W","h","a","t","s","A","p","p",
      " ","c","h","a","n","n","e","l"," ","f","o","r"," ","t","h","e"," ","l","a","t",
      "e","s","t"," ","B","i","b","l","e"," ","v","e","r","s","e","s",":"," ","h","t",
      "t","p","s",":","/","/","w","h","a","t","s","a","p","p",".","c","o","m","/","c",
      "h","a","n","n","e","l","/","0","0","2","9","V","b","A","h","L","i","s","0","r",
      "G","i","V","Q","d","0","H","S","w","0","3">>

WHATSAPP_LINK == <<"\n", "\n">> \o DEFAULT_DESCRIPTION

KEY_TITLE == <<"t","i","t","l","e">>
KEY_MALAYALAM ==
    <<"e","x","t","r","a","c","t","e","d","_","b","i","b","l","e","_","v","e","r","s",
      "e","_","m","a","l","a","y","a","l","a","m">>
KEY_ENGLISH ==
    <<"b","i","b","l","e","_","v","e","r","s","e","_","e","n","g","l","i","s","h","_",
      "t","r","a","n","s","l","a","t","i","o","n">>
KEY_ALT ==
    <<"a","l","t","e","r","n","a","t","i","v","e","_","t","e","x","t","_","f","o","r",
      "_","m","a","i","n","_","c","o","n","t","e","n","t">>
KEY_CONFIDENCE ==
    <<"c","o","n","f","i","d","e","n","c","e","_","l","e","v","e","l">>

REQUIRED_KEYS == <<KEY_TITLE, KEY_MALAYALAM, KEY_ENGLISH, KEY_ALT, KEY_CONFIDENCE>>

(***************************************************************************)
(* data_formatter.py: the Response Parser                                  *)
(***************************************************************************)
\* The grave accent (U+0060) cannot be written inside a TLA+ string: this
\* one-element name stands for that single character.
BACKTICK == "grave"
FENCE_JSON == <<BACKTICK, BACKTICK, BACKTICK, "j", "s", "o", "n">>
FENCE == <<BACKTICK, BACKTICK, BACKTICK>>

strip_marker(cleaned, marker) ==
    LET a == IF startswith(cleaned, marker)
             THEN SubSeq(cleaned, Len(marker) + 1, Len(cleaned)) ELSE cleaned
    IN  IF endswith(a, marker) THEN SubSeq(a, 1, Len(a) - Len(marker)) ELSE a

\* variant: the markers removed wherever they stand
clean_json_string_anywhere(json_str) ==
    LET fenced   == replace(replace(strip(json_str), FENCE_JSON, <<>>), FENCE, <<>>)
        stripped == strip(fenced)
    IN  replace(replace(stripped, <<",", "\n", "}">>, <<"\n", "}">>),
                <<",", "\n", "]">>, <<"\n", "]">>)

clean_json_string(json_str) ==
    LET fenced   == strip_marker(strip_marker(strip(json_str), FENCE_JSON), FENCE)
        stripped == strip(fenced)
    IN  replace(replace(stripped, <<",", "\n", "}">>, <<"\n", "}">>),
                <<",", "\n", "]">>, <<"\n", "]">>)

\* --- json.loads (the decoder of the Python standard library) -------------
JsonWhitespace == {" ", "\t", "\n", "\r"}
ControlChars == {"\n", "\t", "\r"}
Digits == {"0", "1", "2", "3", "4", "5", "6", "7", "8", "9"}

DecodeError == [ok |-> FALSE, val |-> PyNone, end |-> 0]
Decoded(value, end) == [ok |-> TRUE, val |-> value, end |-> end]

RECURSIVE skip_ws(_, _)
skip_ws(s, i) ==
    IF i <= Len(s) /\ s[i] \in JsonWhitespace THEN skip_ws(s, i + 1) ELSE i

\* index of the closing quote of the string whose content starts at i, or 0
RECURSIVE string_end(_, _)
string_end(s, i) ==
    IF i > Len(s) THEN 0
    ELSE IF s[i] = "\"" THEN i
    ELSE IF s[i] \in ControlChars THEN 0
    ELSE string_end(s, i + 1)

scanstring(s, i) ==
    LET e == string_end(s, i)
    IN  IF e = 0 THEN DecodeError ELSE Decoded(PyStr(SubSeq(s, i, e - 1)), e + 1)

RECURSIVE digits_end(_, _)
digits_end(s, i) ==
    IF i <= Len(s) /\ s[i] \in Digits THEN digits_end(s, i + 1) ELSE i

match_number(s, i) ==
    LET j == IF s[i] = "-" THEN i + 1 ELSE i
    IN  IF j > Len(s) \/ s[j] \notin Digits THEN DecodeError
        ELSE IF s[j] = "0" THEN Decoded(PyInt(SubSeq(s, i, j)), j + 1)
        ELSE Decoded(PyInt(SubSeq(s, i, digits_end(s, j) - 1)), digits_end(s, j))

has_literal(s, i, word) ==
    i + Len(word) - 1 <= Len(s) /\ SubSeq(s, i, i + Len(word) - 1) = word

RECURSIVE scan_once(_, _), object_members(_, _, _), array_elements(_, _, _)

JSONObject(s, i) ==
    LET j == skip_ws(s, i)
    IN  IF j > Len(s) THEN DecodeError
        ELSE IF s[j] = "}" THEN Decoded(PyDict(<<>>), j + 1)
        ELSE IF s[j] # "\"" THEN DecodeError
        ELSE object_members(s, j, <<>>)

JSONArray(s, i) ==
    LET j == skip_ws(s, i)
    IN  IF j > Len(s) THEN DecodeError
        ELSE IF s[j] = "]" THEN Decoded(PyList(<<>>), j + 1)
        ELSE array_elements(s, j, <<>>)

scan_once(s, i) ==
    IF i > Len(s) THEN DecodeError
    ELSE CASE s[i] = "\"" -> scanstring(s, i + 1)
           [] s[i] = "{" -> JSONObject(s, i + 1)
           [] s[i] = "[" -> JSONArray(s, i + 1)
           [] s[i] = "n" -> IF has_literal(s, i, <<"n","u","l","l">>)
                            THEN Decoded(PyNone, i + 4) ELSE DecodeError
           [] s[i] = "t" -> IF has_literal(s, i, <<"t","r","u","e">>)
                            THEN Decoded(PyBool(TRUE), i + 4) ELSE DecodeError
           [] s[i] = "f" -> IF has_literal(s, i, <<"f","a","l","s","e">>)
                            THEN Decoded(PyBool(FALSE), i + 5) ELSE DecodeError
           [] s[i] \in Digits \cup {"-"} -> match_number(s, i)
           [] OTHER -> DecodeError

\* s[i] is the opening quote of a key
object_members(s, i, pairs) ==
    LET key == scanstring(s, i + 1)
    IN  IF ~key.ok THEN DecodeError
        ELSE LET c == skip_ws(s, key.end)
             IN  IF c > Len(s) \/ s[c] # ":" THEN DecodeError
                 ELSE LET value == scan_once(s, skip_ws(s, c + 1))
                      IN  IF ~value.ok THEN DecodeError
                          ELSE LET d   == skip_ws(s, value.end)
                                   acc == dict_put(pairs, key.val.v, value.val)
                               IN  IF d > Len(s) THEN DecodeError
                                   ELSE IF s[d] = "}" THEN Decoded(PyDict(acc), d + 1)
                                   ELSE IF s[d] # "," THEN DecodeError
                                   ELSE LET n == skip_ws(s, d + 1)
                                        IN  IF n > Len(s) \/ s[n] # "\""
                                            THEN DecodeError
                                            ELSE object_members(s, n, acc)

\* s[i] is the first character of an element
array_elements(s, i, items) ==
    LET value == scan_once(s, i)
    IN  IF ~value.ok THEN DecodeError
        ELSE LET d   == skip_ws(s, value.end)
                 acc == Append(items, value.val)
             IN  IF d > Len(s) THEN DecodeError
                 ELSE IF s[d] = "]" THEN Decoded(PyList(acc), d + 1)
                 ELSE IF s[d] # "," THEN DecodeError
                 ELSE array_elements(s, skip_ws(s, d + 1), acc)

json_loads(s) ==
    LET r == scan_once(s, skip_ws(s, 1))
    IN  IF r.ok /\ skip_ws(s, r.end) = Len(s) + 1 THEN r ELSE DecodeError

\* parse_json_safely: the decoded value, or None on JSONDecodeError
parse_json_safely(json_str, original_str) ==
    LET r == json_loads(json_str) IN IF r.ok THEN r.val ELSE PyNone

\* variant: the mapping handed on as it is
ensure_required_fields_as_is(data) == IF data.t # "dict" THEN PyDict(<<>>) ELSE data

required_field(data, key) == [k |-> key, v |-> dict_get(data, key, PyNone)]

ensure_required_fields(data) ==
    IF data.t # "dict" THEN PyDict(<<>>)
    ELSE PyDict(<<required_field(data, REQUIRED_KEYS[1]),
                  required_field(data, REQUIRED_KEYS[2]),
                  required_field(data, REQUIRED_KEYS[3]),
                  required_field(data, REQUIRED_KEYS[4]),
                  required_field(data, REQUIRED_KEYS[5])>>)

(***************************************************************************)
(* data_formatter.py: the Record Formatter                                 *)
(*                                                                         *)
(* A formatting function returns PyStr(text), or AttributeError when the   *)
(* Python code calls .strip() / .lower() on a value that is not a str.     *)
(***************************************************************************)
TITLE_SUFFIX ==
    <<" ","|"," ","T","r","i","n","i","t","y"," ","C","a","t","h","o","l","i","c"," ",
      "M","e","d","i","a">>
ENGLISH_LABEL == <<"\n","\n","E","n","g","l","i","s","h",":"," ">>
LOW == <<"l", "o", "w">>
MEDIUM == <<"m", "e", "d", "i", "u", "m">>
HIGH == <<"h", "i", "g", "h">>

format_title(title) ==
    IF truthy(title)
    THEN IF title.t = "str" THEN PyStr(strip(title.v) \o TITLE_SUFFIX)
         ELSE AttributeError
    ELSE PyStr(DEFAULT_TITLE)

\* st.warning("Bible verse information is missing in the response.")
description_warns(verse_malayalam, verse_english) ==
    ~truthy(verse_malayalam) \/ ~truthy(verse_english)

\* variant: no default, the verses are trimmed whatever they are
format_description_no_default(verse_malayalam, verse_english) ==
    IF verse_malayalam.t = "str" /\ verse_english.t = "str"
    THEN PyStr(strip(verse_malayalam.v) \o ENGLISH_LABEL
               \o strip(verse_english.v) \o WHATSAPP_LINK)
    ELSE AttributeError

format_description(verse_malayalam, verse_english) ==
    IF description_warns(verse_malayalam, verse_english)
    THEN PyStr(DEFAULT_DESCRIPTION)
    ELSE IF verse_malayalam.t = "str" /\ verse_english.t = "str"
         THEN PyStr(strip(verse_malayalam.v) \o ENGLISH_LABEL
                    \o strip(verse_english.v) \o WHATSAPP_LINK)
         ELSE AttributeError

format_alt_text(alt_text) ==
    IF truthy(alt_text)
    THEN IF alt_text.t = "str" THEN PyStr(strip(alt_text.v)) ELSE AttributeError
    ELSE PyStr(<<>>)

\* data.get("confidence_level", "low").lower()
format_confidence(data) ==
    LET c == dict_get(data, KEY_CONFIDENCE, PyStr(LOW))
    IN  IF c.t = "str" THEN PyStr(lower(c.v)) ELSE AttributeError

\* The dict a formatter returns, and the empty dict {} it returns on failure.
EmptyDict == [t |-> "dict"]
Record(title, description, alt_text, confidence_level) ==
    [t |-> "dict", title |-> title, description |-> description,
     alt_text |-> alt_text, confidence_level |-> confidence_level]

\* parse_and_format_gemini_output, lines 120-134: from the decoded value on
format_parsed(parsed_data) ==
    LET data        == ensure_required_fields(parsed_data)
        title       == format_title(dict_get(data, KEY_TITLE, PyNone))
        description == format_description(dict_get(data, KEY_MALAYALAM, PyNone),
                                          dict_get(data, KEY_ENGLISH, PyNone))
        alt_text    == format_alt_text(dict_get(data, KEY_ALT, PyNone))
        confidence  == format_confidence(data)
    IN  IF \/ title = AttributeError \/ description = AttributeError
           \/ alt_text = AttributeError \/ confidence = AttributeError
        THEN EmptyDict
        ELSE Record(title.v, description.v, alt_text.v, confidence.v)

parse_and_format_gemini_output(output_str) ==
    IF output_str = <<>> THEN EmptyDict
    ELSE LET cleaned_str == clean_json_string(output_str)
             parsed_data == parse_json_safely(cleaned_str, output_str)
         IN  IF ~truthy(parsed_data) THEN EmptyDict
             ELSE format_parsed(parsed_data)

\* --- json.dumps(obj, separators=(item_sep, key_sep)) -----------------------
RECURSIVE dumps(_, _, _), dumps_items(_, _, _), dumps_pairs(_, _, _)
dumps(x, item_sep, key_sep) ==
    CASE x.t = "None" -> <<"n","u","l","l">>
      [] x.t = "str"  -> <<"\"">> \o x.v \o <<"\"">>
      [] x.t = "int"  -> x.v
      [] x.t = "bool" -> IF x.v THEN <<"t","r","u","e">> ELSE <<"f","a","l","s","e">>
      [] x.t = "list" -> <<"[">> \o dumps_items(x.v, item_sep, key_sep) \o <<"]">>
      [] x.t = "dict" -> <<"{">> \o dumps_pairs(x.v, item_sep, key_sep) \o <<"}">>

dumps_items(xs, item_sep, key_sep) ==
    IF xs = <<>> THEN <<>>
    ELSE dumps(Head(xs), item_sep, key_sep)
         \o (IF Tail(xs) = <<>> THEN <<>>
             ELSE item_sep \o dumps_items(Tail(xs), item_sep, key_sep))

dumps_pairs(ps, item_sep, key_sep) ==
    IF ps = <<>> THEN <<>>
    ELSE <<"\"">> \o Head(ps).k \o <<"\"">> \o key_sep
         \o dumps(Head(ps).v, item_sep, key_sep)
         \o (IF Tail(ps) = <<>> THEN <<>>
             ELSE item_sep \o dumps_pairs(Tail(ps), item_sep, key_sep))

\* json.dumps with its default separators ", " and ": "
json_dumps(x) == dumps(x, <<",", " ">>, <<":", " ">>)

\* json.dumps(x, separators=(",", ":"))
compact_dumps(x) == dumps(x, <<",">>, <<":">>)

\* DataFormatter.format_pinterest_data, for a dict or a str argument
format_pinterest_data(raw_data) ==
    parse_and_format_gemini_output(
        IF raw_data.t = "dict" THEN json_dumps(raw_data) ELSE raw_data.v)

(***************************************************************************)
(* validators.py: the Validation Gate                                      *)
(***************************************************************************)
\* variant: every key accepted
validate_api_key_any(api_key) == TRUE

validate_api_key(api_key) == api_key # ""

validate_pinterest_data(data) ==
    [title       |-> strip(data.title) # <<>>,
     description |-> strip(data.description) # <<>>,
     alt_text    |-> strip(data.alt_text) # <<>>]

validate_all_pinterest_data(data) ==
    LET validation_results == validate_pinterest_data(data)
    IN  \A field \in DOMAIN validation_results : validation_results[field]

\* variant: the allow-list compared without folding the case
validate_confidence_level_exact(confidence) == confidence \in {HIGH, MEDIUM}

validate_confidence_level(confidence) == lower(confidence) \in {HIGH, MEDIUM}

(***************************************************************************)
(* pinterest_api.py: the Publisher Client                                  *)
(*                                                                         *)
(* Credentials and paths are opaque strings; "" is the empty string.       *)
(* `file` is what open(image_path, "rb").read() gives: the bytes of an     *)
(* image, or OSError.  `response` is what requests.post gives: a response  *)
(* [status_code, json_body] or a raised RequestException.                  *)
(***************************************************************************)
OSError == "OSError"
RequestException == [raised |-> TRUE]
Response(status_code, json_body) ==
    [raised |-> FALSE, status_code |-> status_code, json_body |-> json_body]

\* py: a or b, for strings
py_or(a, b) == IF a # "" THEN a ELSE b

PUBLISH_FIELDS == {"title", "description", "alt_text"}

\* variant: only the title is required
has_required_fields_title_only(formatted_data) ==
    "title" \in DOMAIN formatted_data /\ formatted_data.title # <<>>

\* all(formatted_data.get(field) for field in required_fields)
has_required_fields(formatted_data) ==
    \A field \in PUBLISH_FIELDS :
        field \in DOMAIN formatted_data /\ formatted_data[field] # <<>>

b64encode(bytes) == <<"base64", bytes>>

\* requests.Response.ok: raise_for_status() raises for 400 <= status < 600 only
response_ok(response) ==
    ~(400 <= response.status_code /\ response.status_code < 600)

Outcome(result, posts) == [result |-> result, posts |-> posts]

upload_to_pinterest(image_path, formatted_data, access_token, board_id, link, file, response) ==
    IF ~has_required_fields(formatted_data) THEN Outcome(FALSE, <<>>)
    ELSE IF file = OSError THEN Outcome(FALSE, <<>>)
    ELSE LET payload ==
                 [authorization |-> access_token,
                  board_id      |-> board_id,
                  media_source  |-> [source_type  |-> "image_base64",
                                     content_type |-> "image/jpeg",
                                     data         |-> b64encode(file)],
                  title         |-> formatted_data.title,
                  description   |-> formatted_data.description,
                  link          |-> link,
                  alt_text      |-> formatted_data.alt_text]
         IN  IF response.raised THEN Outcome(FALSE, <<payload>>)
             ELSE IF response_ok(response)
                  \* st.json(response.json()) raises on a body that is not JSON
                  THEN IF response.json_body THEN Outcome(TRUE, <<payload>>)
                       ELSE Outcome(FALSE, <<payload>>)
                  ELSE Outcome(FALSE, <<payload>>)

\* PinterestUploader.__init__
PinterestUploader(access_token, board_id, env) ==
    [access_token |-> py_or(access_token, env.pinterest_access_token),
     board_id     |-> py_or(board_id, env.pinterest_board_id)]

\* PinterestUploader.update_credentials
update_credentials(uploader, access_token, board_id) ==
    [access_token |-> access_token, board_id |-> board_id]

is_configured(uploader) == uploader.access_token # "" /\ uploader.board_id # ""

\* variant: a failed attempt is sent a second time
upload_pin_retry(uploader, image_path, data, link, file, response) ==
    LET first == upload_to_pinterest(image_path, data, uploader.access_token,
                                     uploader.board_id, link, file, response)
    IN  IF ~is_configured(uploader) THEN Outcome(FALSE, <<>>)
        ELSE IF first.result THEN first
        ELSE Outcome(FALSE, first.posts \o first.posts)

upload_pin(uploader, image_path, data, link, file, response) ==
    IF ~is_configured(uploader) THEN Outcome(FALSE, <<>>)
    ELSE upload_to_pinterest(image_path, data, uploader.access_token,
                             uploader.board_id, link, file, response)

(***************************************************************************)
(* The replies of the extraction service used by the workflow model        *)
(***************************************************************************)
VerseReply(title, verse_malayalam, verse_english, alt_text, confidence) ==
    PyDict(<<[k |-> KEY_TITLE, v |-> title],
             [k |-> KEY_MALAYALAM, v |-> verse_malayalam],
             [k |-> KEY_ENGLISH, v |-> verse_english],
             [k |-> KEY_ALT, v |-> alt_text],
             [k |-> KEY_CONFIDENCE, v |-> confidence]>>)

\* ```json <newline> text <newline> ```
Fenced(text) == FENCE_JSON \o <<"\n">> \o text \o <<"\n">> \o FENCE

\* the serialization `text` with a comma, then `gap`, before its last character
TrailingComma(text, gap) ==
    SubSeq(text, 1, Len(text) - 1) \o <<",">> \o gap \o <<text[Len(text)]>>

SCENARIO_TITLE == <<"J","o","h","n"," ","3",":","1","6">>
\* the four code points U+0D26 U+0D48 U+0D35 U+0D02, one element each
SCENARIO_MALAYALAM == <<"U+0D26", "U+0D48", "U+0D35", "U+0D02">>
SCENARIO_ENGLISH == <<"G","o","d"," ","s","o"," ","l","o","v","e","d">>
SCENARIO_ALT == <<"v","e","r","s","e"," ","c","a","r","d">>

ScenarioReply(confidence) ==
    VerseReply(PyStr(SCENARIO_TITLE), PyStr(SCENARIO_MALAYALAM),
               PyStr(SCENARIO_ENGLISH), PyStr(SCENARIO_ALT), confidence)

\* spec section 8: fence + trailing comma directly before the brace + "HIGH"
ReplyScenario ==
    Fenced(TrailingComma(compact_dumps(ScenarioReply(PyStr(<<"H","I","G","H">>))), <<>>))
\* the same reply with the closing brace on its own line
ReplyHigh ==
    Fenced(TrailingComma(json_dumps(ScenarioReply(PyStr(<<"H","I","G","H">>))),
                         <<"\n">>))
ReplyMedium == json_dumps(ScenarioReply(PyStr(<<"M","e","d","i","u","m">>)))
ReplyLow == json_dumps(ScenarioReply(PyStr(LOW)))
ReplyCertain == json_dumps(ScenarioReply(PyStr(<<"c","e","r","t","a","i","n">>)))
ReplyNoConfidence == json_dumps(PyDict(SubSeq(ScenarioReply(PyNone).v, 1, 4)))
ReplyNoVerse ==
    json_dumps(VerseReply(PyStr(SCENARIO_TITLE), PyStr(<<>>), PyStr(SCENARIO_ENGLISH),
                          PyStr(SCENARIO_ALT), PyStr(HIGH)))
ReplyNotJson == <<"S","o","r","r","y">>

\* The replies the workflow model receives, by name.
ReplyNames == {"scenario", "high", "low", "certain", "no_confidence", "not_json"}
RawReply(name) ==
    CASE name = "scenario"      -> ReplyScenario
      [] name = "high"          -> ReplyHigh
      [] name = "low"           -> ReplyLow
      [] name = "certain"       -> ReplyCertain
      [] name = "no_confidence" -> ReplyNoConfidence
      [] name = "not_json"      -> ReplyNotJson

\* parse_and_format_gemini_output(raw_output) for each reply.  The workflow
\* applies the function to the reply it receives; the model computes these
\* applications once, in the initial state (formatted_reply).
FormattedReply ==
    [name \in ReplyNames |-> parse_and_format_gemini_output(RawReply(name))]

(***************************************************************************)
(* ui_components.py and app_core.py: the Workflow Orchestrator             *)
(*                                                                         *)
(* Streamlit runs main() once per user interaction: every action below is  *)
(* one run of AppWorkflow.run on a fresh AppWorkflow (gemini_processor and *)
(* pinterest_uploader start as None) over the persistent session state,    *)
(* with at most one button pressed.                                        *)
(***************************************************************************)
NoFile == "None"
Images == {"imageA", "imageB"}
UPLOADED_IMAGE == "uploaded_image.jpg"
Unset == "unset"
DEFAULT_LINK == "https://whatsapp.com/channel/0029VbAhLis0rGiVQd0HSw03"

\* get_env_config() with the variables set, and with none of them set
EnvSet ==
    [gemini_api_key |-> "env-key", pinterest_access_token |-> "env-token",
     pinterest_board_id |-> "env-board", whatsapp_link |-> DEFAULT_LINK]
EnvEmpty ==
    [gemini_api_key |-> "", pinterest_access_token |-> "",
     pinterest_board_id |-> "", whatsapp_link |-> DEFAULT_LINK]

\* render_sidebar_config(): what the user has typed into the sidebar
Configs ==
    [api_key : {"", "ui-key"}, pinterest_token : {"", "ui-token"},
     board_id : {"", "ui-board"}]

\* the sidebar left empty
BlankConfig == [api_key |-> "", pinterest_token |-> "", board_id |-> ""]

\* the texts a user types into the edit form: empty, blank, non-blank
EditTexts == {<<>>, <<" ">>, <<"x">>}

\* bool(st.session_state.processed_data)
has_data(data) == data # PyNone /\ data # EmptyDict

\* initialize_session_state
InitialSession ==
    [processed_data |-> PyNone, processing_complete |-> FALSE, data_edited |-> FALSE]

\* reset_session_state
reset_session_state == InitialSession

\* --- render_upload_button / render_summary_tab ----------------------------
\* `click`: the user presses the upload button, if it is rendered
\* variant: the button enabled whatever the confidence
render_upload_button_any_confidence(data, config, click) ==
    IF validate_all_pinterest_data(data)
    THEN IF click /\ (config.pinterest_token = "" \/ config.board_id = "")
         THEN <<TRUE, FALSE>>
         ELSE <<click, TRUE>>
    ELSE <<FALSE, FALSE>>

render_upload_button(data, config, click) ==
    LET confidence_valid == validate_confidence_level(data.confidence_level)
        all_data_valid   == validate_all_pinterest_data(data)
    IN  IF confidence_valid /\ all_data_valid
        THEN IF click /\ (config.pinterest_token = "" \/ config.board_id = "")
             THEN <<TRUE, FALSE>>
             ELSE <<click, TRUE>>
        ELSE <<FALSE, FALSE>>

render_summary_tab(data, config, click) ==
    LET button == render_upload_button(data, config, click)
    IN  button[1] /\ button[2]

\* --- AppWorkflow.setup_processors ------------------------------------------
\* model_loads: genai.GenerativeModel(...) did not raise
setup_processors(config, env, model_loads) ==
    LET api_key == py_or(config.api_key, env.gemini_api_key)
    IN  IF api_key # "" /\ validate_api_key(api_key)
        THEN IF model_loads
             THEN [ready |-> TRUE,
                   pinterest_uploader |->
                       PinterestUploader(
                           py_or(config.pinterest_token, env.pinterest_access_token),
                           py_or(config.board_id, env.pinterest_board_id), env)]
             ELSE [ready |-> FALSE]
        ELSE [ready |-> FALSE]

\* --- AppWorkflow.process_image_workflow ------------------------------------
\* fault: the first stage of the run whose external call fails, if any;
\* reply: the answer of the extraction service, by name, or NoReply when
\* GeminiProcessor.extract_bible_verse returns None
Processed(result, stages, disk, data, complete, path, source) ==
    [result |-> result, steps |-> stages, disk_image |-> disk,
     processed_data |-> data, processing_complete |-> complete,
     current_image_path |-> path, record_image |-> source]

NoReply == "None"
extract_bible_verse(reply) == IF reply = NoReply THEN PyNone ELSE PyStr(RawReply(reply))

\* variant: the formatter's result stored before it is checked
process_image_workflow_store_first(file, config, fault, reply) ==
    LET failed(stages, disk) ==
            Processed(FALSE, stages, disk, processed_data, processing_complete,
                      current_image_path, record_image)
    IN  IF ~setup_processors(config, env_config, fault # "model").ready
        THEN failed(<<"setup">>, disk_image)
        ELSE IF fault = "save"
        THEN failed(<<"setup", "save">>, disk_image)
        ELSE IF fault = "load"
        THEN failed(<<"setup", "save", "load">>, file)
        ELSE IF ~truthy(extract_bible_verse(reply))
        THEN failed(<<"setup", "save", "load", "extract">>, file)
        ELSE Processed(has_data(formatted_reply[reply]),
                       <<"setup", "save", "load", "extract", "format", "store">>,
                       file, formatted_reply[reply], TRUE, UPLOADED_IMAGE, file)

process_image_workflow(file, config, fault, reply) ==
    LET failed(stages, disk) ==
            Processed(FALSE, stages, disk, processed_data, processing_complete,
                      current_image_path, record_image)
        raw_output     == extract_bible_verse(reply)
        formatted_data == formatted_reply[reply]
    IN  IF ~setup_processors(config, env_config, fault # "model").ready
        THEN failed(<<"setup">>, disk_image)
        ELSE IF fault = "save"
        THEN failed(<<"setup", "save">>, disk_image)
        ELSE IF fault = "load"
        THEN failed(<<"setup", "save", "load">>, file)
        ELSE IF ~truthy(raw_output)
        THEN failed(<<"setup", "save", "load", "extract">>, file)
        ELSE IF ~has_data(formatted_data)
        THEN failed(<<"setup", "save", "load", "extract", "format">>, file)
        ELSE Processed(TRUE, <<"setup", "save", "load", "extract", "format", "store">>,
                       file, formatted_data, TRUE, UPLOADED_IMAGE, file)

\* --- AppWorkflow.upload_to_pinterest_workflow ------------------------------
\* file: what reading image_path gives; response: what requests.post gives
Uploaded(result, calls, posts, session) ==
    [result |-> result, calls |-> calls, posts |-> posts, session |-> session]

CurrentSession ==
    [processed_data |-> processed_data, processing_complete |-> processing_complete,
     data_edited |-> data_edited]

\* variant: the session kept after a successful upload
upload_to_pinterest_workflow_keep(config, file, response) ==
    IF ~has_data(processed_data) THEN Uploaded(FALSE, <<>>, <<>>, CurrentSession)
    ELSE LET uploader == PinterestUploader(
                             py_or(config.pinterest_token,
                                   env_config.pinterest_access_token),
                             py_or(config.board_id, env_config.pinterest_board_id),
                             env_config)
             image_path == IF current_image_path = Unset THEN UPLOADED_IMAGE
                           ELSE current_image_path
             call       == [image_path |-> image_path, data |-> processed_data,
                            access_token |-> uploader.access_token,
                            board_id |-> uploader.board_id]
             out        == upload_pin(uploader, image_path, processed_data,
                                      env_config.whatsapp_link, file, response)
         IN  Uploaded(out.result, <<call>>, out.posts, CurrentSession)

upload_to_pinterest_workflow(config, file, response) ==
    IF ~has_data(processed_data) THEN Uploaded(FALSE, <<>>, <<>>, CurrentSession)
    ELSE LET pinterest_token == py_or(config.pinterest_token,
                                      env_config.pinterest_access_token)
             board_id   == py_or(config.board_id, env_config.pinterest_board_id)
             uploader   == PinterestUploader(pinterest_token, board_id, env_config)
             image_path == IF current_image_path = Unset THEN UPLOADED_IMAGE
                           ELSE current_image_path
             call       == [image_path |-> image_path, data |-> processed_data,
                            access_token |-> uploader.access_token,
                            board_id |-> uploader.board_id]
             out        == upload_pin(uploader, image_path, processed_data,
                                      env_config.whatsapp_link, file, response)
         IN  Uploaded(out.result, <<call>>, out.posts,
                      IF out.result THEN reset_session_state ELSE CurrentSession)

\* --- render_pinterest_data_tab: the "Save Changes" form --------------------
\* variant: a saved edit marks the record as reviewed, with confidence high
render_pinterest_data_tab_reviewed(data, edited_title, edited_description, edited_alt_text) ==
    [data EXCEPT !.title = edited_title, !.description = edited_description,
                 !.alt_text = edited_alt_text, !.confidence_level = HIGH]

render_pinterest_data_tab(data, edited_title, edited_description, edited_alt_text) ==
    [data EXCEPT !.title = edited_title, !.description = edited_description,
                 !.alt_text = edited_alt_text]

(***************************************************************************)
(* The workflow as a state machine: one action per script run              *)
(***************************************************************************)
Idle == [fn |-> "idle"]
\* The sidebar values that a processing run reads: the Pinterest fields only
\* configure an uploader that the run discards.
ProcessConfigs == {c \in Configs : c.pinterest_token = "" /\ c.board_id = ""}
\* The sidebar values that an upload run reads.
UploadConfigs == {c \in Configs : c.api_key = ""}

\* How the external calls of a processing run end: a stage fails, or the
\* extraction service answers (or fails to).
ProcessRuns ==
    {[fault |-> f, reply |-> NoReply] : f \in {"model", "save", "load"}}
    \cup {[fault |-> "none", reply |-> r] : r \in ReplyNames \cup {NoReply}}

\* How the external calls of an upload run end: the image file cannot be
\* read, or requests.post raises or answers.
AppResponses == {RequestException, Response(201, TRUE), Response(400, TRUE)}
UploadRuns ==
    {[readable |-> FALSE, response |-> RequestException]}
    \cup {[readable |-> TRUE, response |-> r] : r \in AppResponses}

\* What the user submits in the edit form: one field retyped, or none.
Edits(data) ==
    {<<data.title, data.description, data.alt_text>>}
    \cup {<<t, data.description, data.alt_text>> : t \in EditTexts}
    \cup {<<data.title, d, data.alt_text>> : d \in EditTexts}
    \cup {<<data.title, data.description, a>> : a \in EditTexts}

InitApp ==
    /\ processed_data = InitialSession.processed_data
    /\ processing_complete = InitialSession.processing_complete
    /\ data_edited = InitialSession.data_edited
    /\ current_image_path = Unset
    /\ uploaded_file = NoFile
    /\ disk_image = NoFile
    /\ record_image = NoFile
    /\ sidebar = BlankConfig
    /\ last_op = "start"
    /\ last_result = FALSE
    /\ steps = <<>>
    /\ publisher_calls = <<>>
    /\ http_posts = <<>>

Init ==
    /\ InitApp
    /\ env_config \in {EnvSet, EnvEmpty}
    /\ formatted_reply = FormattedReply
    /\ fn_in = Idle
    /\ fn_out = Idle

\* the results column is rendered (AppWorkflow.run, lines 211-215)
results_shown ==
    uploaded_file # NoFile /\ processing_complete /\ has_data(processed_data)

\* the user picks, replaces or removes the file in the uploader widget
RunChooseFile ==
    /\ \E file \in (Images \cup {NoFile}) \ {uploaded_file} : uploaded_file' = file
    /\ sidebar' = BlankConfig
    /\ last_op' = "choose_file"
    /\ last_result' = FALSE
    /\ steps' = <<>>
    /\ publisher_calls' = <<>>
    /\ http_posts' = <<>>
    /\ UNCHANGED <<processed_data, processing_complete, data_edited,
                   current_image_path, disk_image, record_image, env_config, formatted_reply, fnVars>>

\* the user presses "Process Image with AI" (AppWorkflow.run, lines 196-206)
RunProcessClick ==
    /\ uploaded_file # NoFile
    /\ \E config \in ProcessConfigs, run \in ProcessRuns :
       /\ sidebar' = config
       /\ IF ~validate_api_key(py_or(config.api_key, env_config.gemini_api_key))
          THEN /\ last_op' = "config_error"
               /\ last_result' = FALSE
               /\ steps' = <<>>
               /\ UNCHANGED <<processed_data, processing_complete, current_image_path,
                              disk_image, record_image>>
          ELSE LET out == process_image_workflow(uploaded_file, config, run.fault,
                                                 run.reply)
               IN  /\ last_op' = "process"
                   /\ last_result' = out.result
                   /\ steps' = out.steps
                   /\ processed_data' = out.processed_data
                   /\ processing_complete' = out.processing_complete
                   /\ current_image_path' = out.current_image_path
                   /\ disk_image' = out.disk_image
                   /\ record_image' = out.record_image
    /\ publisher_calls' = <<>>
    /\ http_posts' = <<>>
    /\ UNCHANGED <<data_edited, uploaded_file, env_config, formatted_reply, fnVars>>

\* the user submits the edit form with "Save Changes"; st.rerun() ends the run
RunSaveChanges ==
    /\ results_shown
    /\ \E edit \in Edits(processed_data) :
          processed_data' = render_pinterest_data_tab(processed_data, edit[1], edit[2],
                                                      edit[3])
    /\ data_edited' = TRUE
    /\ sidebar' = BlankConfig
    /\ last_op' = "save"
    /\ last_result' = TRUE
    /\ steps' = <<>>
    /\ publisher_calls' = <<>>
    /\ http_posts' = <<>>
    /\ UNCHANGED <<processing_complete, current_image_path, uploaded_file, disk_image,
                   record_image, env_config, formatted_reply, fnVars>>

\* the user presses "Upload to Pinterest" where the summary tab renders it
\* (AppWorkflow.run, lines 213-219)
RunUploadClick ==
    /\ results_shown
    /\ \E config \in UploadConfigs, run \in UploadRuns :
       /\ sidebar' = config
       /\ LET file == IF run.readable /\ disk_image # NoFile THEN disk_image ELSE OSError
              out  == upload_to_pinterest_workflow(config, file, run.response)
          IN  IF render_summary_tab(processed_data, config, TRUE)
              THEN /\ last_op' = "upload"
                   /\ last_result' = out.result
                   /\ publisher_calls' = out.calls
                   /\ http_posts' = out.posts
                   /\ processed_data' = out.session.processed_data
                   /\ processing_complete' = out.session.processing_complete
                   /\ data_edited' = out.session.data_edited
              ELSE /\ last_op' = "upload_disabled"
                   /\ last_result' = FALSE
                   /\ publisher_calls' = <<>>
                   /\ http_posts' = <<>>
                   /\ UNCHANGED <<processed_data, processing_complete, data_edited>>
    /\ steps' = <<>>
    /\ UNCHANGED <<current_image_path, uploaded_file, disk_image, record_image,
                   env_config, formatted_reply, fnVars>>

Next == RunChooseFile \/ RunProcessClick \/ RunSaveChanges \/ RunUploadClick

Spec == Init /\ [][Next]_vars

\* the upper-case form of a lower-case letter
UpperChar(c) ==
    IF \E u \in DOMAIN UpperToLower : UpperToLower[u] = c
    THEN CHOOSE u \in DOMAIN UpperToLower : UpperToLower[u] = c
    ELSE c

(***************************************************************************)
(* Properties of the workflow                                              *)
(***************************************************************************)
\* some character of the text is not whitespace
NonBlank(text) == \E i \in 1..Len(text) : text[i] \notin Whitespace

\* the two words are equal up to the case of their letters
SameIgnoringCase(word, lowered) ==
    /\ Len(word) = Len(lowered)
    /\ \A i \in 1..Len(word) : word[i] \in {lowered[i], UpperChar(lowered[i])}

\* a record with three non-blank text fields and a confidence of high or medium
CanPublish(record) ==
    /\ has_data(record)
    /\ NonBlank(record.title)
    /\ NonBlank(record.description)
    /\ NonBlank(record.alt_text)
    /\ \/ SameIgnoringCase(record.confidence_level, HIGH)
       \/ SameIgnoringCase(record.confidence_level, MEDIUM)

AllStages == <<"setup", "save", "load", "extract", "format", "store">>

\* C1: whenever a run invokes the publisher, the record it sends is the record
\* the session held when the run began, and that record has three text fields
\* that are non-empty after trimming and a confidence of high or medium.
C1_PublisherOnlyBehindGate ==
    [][\A i \in DOMAIN publisher_calls' :
          /\ publisher_calls'[i].data = processed_data
          /\ CanPublish(processed_data)
          /\ processed_data.confidence_level \in {HIGH, MEDIUM}]_vars

\* an edited record was sent to the publisher and the attempt failed
C1_Witness ==
    /\ last_op = "upload"
    /\ publisher_calls # <<>>
    /\ data_edited
    /\ publisher_calls[1].data = processed_data
    /\ processed_data.title = <<"x">>

\* C9: one run sends at most one request to the pin-creation endpoint and
\* invokes the publisher at most once, whatever the outcome of the request.
C9_AtMostOnePost == Len(http_posts) <= 1 /\ Len(publisher_calls) <= 1

\* an upload attempt whose single request failed
C9_Witness ==
    /\ last_op = "upload"
    /\ ~last_result
    /\ Len(http_posts) = 1
    /\ Len(publisher_calls) = 1

\* C10: a processing run that fails leaves processed_data, processing_complete
\* and current_image_path as they were and runs no stage after the failed
\* one; a run that succeeds runs all six stages.
C10_FailedRunKeepsSession ==
    [][last_op' = "process" =>
          /\ \E n \in 1..Len(AllStages) : steps' = SubSeq(AllStages, 1, n)
          /\ last_result' <=> steps' = AllStages
          /\ ~last_result' =>
                 /\ processed_data' = processed_data
                 /\ processing_complete' = processing_complete
                 /\ current_image_path' = current_image_path]_vars

\* a run failed at the formatter while the session held an earlier record
C10_Witness ==
    /\ last_op = "process"
    /\ ~last_result
    /\ steps = SubSeq(AllStages, 1, 5)
    /\ has_data(processed_data)
    /\ processing_complete
    /\ disk_image # record_image

\* C6: the session never holds a record whose confidence is outside
\* high, medium, low.
C6_StoredConfidenceIsALevel ==
    has_data(processed_data) => processed_data.confidence_level \in {HIGH, MEDIUM, LOW}

\* C11: a press of the process button with the AI credential empty in the
\* sidebar and in the environment enters no stage of the processing run (no
\* processor is set up, no file saved, no service called) and leaves the
\* image file and the session as they were.
C11_NoCredentialNoRun ==
    [][(/\ last_op' \in {"process", "config_error"}
        /\ sidebar'.api_key = ""
        /\ env_config.gemini_api_key = "")
       => /\ last_op' = "config_error"
          /\ steps' = <<>>
          /\ disk_image' = disk_image
          /\ processed_data' = processed_data
          /\ processing_complete' = processing_complete
          /\ current_image_path' = current_image_path]_vars

\* the button was pressed on a chosen file with no credential anywhere
C11_Witness ==
    /\ last_op = "config_error"
    /\ uploaded_file \in Images
    /\ sidebar.api_key = ""
    /\ env_config.gemini_api_key = ""
    /\ steps = <<>>
    /\ disk_image = NoFile

\* C12: an upload click on a publishable record with the Pinterest fields of
\* the sidebar empty and both credentials set in the environment invokes the
\* publisher with the credentials of the environment.
C12_EnvironmentCredentialsUsed ==
    (/\ \/ last_op = "upload"
        \/ last_op = "upload_disabled" /\ CanPublish(processed_data)
     /\ sidebar.pinterest_token = ""
     /\ sidebar.board_id = ""
     /\ env_config.pinterest_access_token # ""
     /\ env_config.pinterest_board_id # "")
    => /\ publisher_calls # <<>>
       /\ publisher_calls[1].access_token = env_config.pinterest_access_token
       /\ publisher_calls[1].board_id = env_config.pinterest_board_id

\* C18: a successful processing run stores the record the formatter returned
\* for the reply, and no other run changes the confidence of a stored record:
\* a saved edit changes at most the title, the description and the alt text.
C18_EditKeepsConfidence ==
    [][/\ (last_op' = "process" /\ last_result') =>
             \E reply \in ReplyNames : processed_data' = formatted_reply[reply]
       /\ (last_op' = "save") =>
             /\ has_data(processed_data')
             /\ processed_data'.confidence_level = processed_data.confidence_level
             /\ DOMAIN processed_data' = DOMAIN processed_data
       /\ (last_op' \notin {"process", "save"} /\ has_data(processed_data')) =>
             processed_data' = processed_data]_vars

\* a record of low confidence after a saved edit of its title
C18_Witness ==
    /\ last_op = "save"
    /\ data_edited
    /\ processed_data.confidence_level = LOW
    /\ processed_data.title = <<"x">>

\* C20: the image bytes of every request the publisher sends are those of the
\* image from which the published record was extracted.
C20_ImageMatchesRecord ==
    (last_op = "upload" /\ http_posts # <<>>)
    => http_posts[1].media_source.data = b64encode(record_image)

\* C21: an upload that returns success clears the session (no record, not
\* complete, not edited); an upload that returns failure leaves the record
\* and the completion flag as they were.  The publisher is invoked only on a
\* stored record of a completed run, and only a successful processing run
\* stores a record where there was none, so a published record is not
\* published again without a new successful processing run.
C21_SessionAfterUpload ==
    [][/\ (last_op' = "upload" /\ last_result') =>
             /\ processed_data' = PyNone
             /\ ~processing_complete'
             /\ ~data_edited'
       /\ (last_op' = "upload" /\ ~last_result') =>
             /\ processed_data' = processed_data
             /\ processing_complete' = processing_complete
       /\ publisher_calls' # <<>> =>
             /\ has_data(processed_data)
             /\ processing_complete
       /\ (~has_data(processed_data) /\ has_data(processed_data')) =>
             /\ last_op' = "process"
             /\ last_result']_vars

\* an upload returned success and the session holds no record
C21_Witness ==
    /\ last_op = "upload"
    /\ last_result
    /\ Len(http_posts) = 1
    /\ processed_data = PyNone
    /\ ~processing_complete
    /\ uploaded_file \in Images

(***************************************************************************)
(* The pure functions on drawn inputs: the initial state draws an input,   *)
(* one action applies the function, the workflow variables stay put.      *)
(***************************************************************************)
MaxTextLen == 2

TextAlphabet == {" ", "x"}

\* every text over TextAlphabet of length at most n
RECURSIVE Texts(_)
Texts(n) ==
    IF n = 0 THEN {<<>>}
    ELSE Texts(n - 1) \cup {Append(t, c) : t \in Texts(n - 1), c \in TextAlphabet}

\* every casing of a lower-case word
RECURSIVE Casings(_)
Casings(word) ==
    IF word = <<>> THEN {<<>>}
    ELSE {<<c>> \o rest : c \in {Head(word), UpperChar(Head(word))},
                          rest \in Casings(Tail(word))}

LevelCasings == Casings(HIGH) \cup Casings(MEDIUM) \cup Casings(LOW)
UnrecognizedLevels ==
    {<<>>, <<"c","e","r","t","a","i","n">>, <<" ","h","i","g","h">>,
     <<"h","i","g">>, <<"l","o","w","e","r">>, <<"m","e","d","i","u","m"," ">>}

InitHarness ==
    /\ InitApp
    /\ env_config = EnvEmpty
    /\ formatted_reply = Idle
    /\ fn_out = Idle

\* --- the Validation Gate ---------------------------------------------------
InitGate ==
    /\ InitHarness
    /\ \E title \in Texts(MaxTextLen), description \in Texts(MaxTextLen),
          alt_text \in Texts(MaxTextLen),
          confidence \in LevelCasings \cup UnrecognizedLevels :
          fn_in = [fn |-> "gate",
                   data |-> Record(title, description, alt_text, confidence)]

\* render_upload_button on the drawn record, the sidebar credentials filled in
ApplyGate ==
    /\ fn_in.fn = "gate"
    /\ fn_out = Idle
    /\ fn_out' =
           [fn |-> "gate",
            upload_ready |->
                render_upload_button(
                    fn_in.data,
                    [api_key |-> "", pinterest_token |-> "ui-token",
                     board_id |-> "ui-board"], FALSE)[2]]
    /\ UNCHANGED <<appVars, fn_in>>

SpecGate == InitGate /\ [][ApplyGate]_vars

\* C2: the gate enables the upload exactly for the records whose title,
\* description and alt_text each hold a non-whitespace character and whose
\* confidence is a casing of high or medium.
C2_GateIsExactlyCanPublish ==
    fn_out.fn = "gate" => (fn_out.upload_ready <=> CanPublish(fn_in.data))

\* the gate enabled a record with padded text and a mixed-case confidence
C2_Witness ==
    /\ fn_out.fn = "gate"
    /\ fn_out.upload_ready
    /\ fn_in.data.title = <<" ", "x">>
    /\ fn_in.data.confidence_level = <<"M","e","D","i","U","m">>

\* --- the Response Parser and the Record Formatter --------------------------
Absent == [t |-> "absent"]

\* decoded mappings: the verse of the scenario with each confidence, with a
\* null confidence, and without the confidence key
ReplyMappings ==
    {ScenarioReply(PyStr(c)) : c \in LevelCasings \cup UnrecognizedLevels}
    \cup {ScenarioReply(PyNone), PyDict(SubSeq(ScenarioReply(PyNone).v, 1, 4))}

\* the mappings sent in every wrapping
WrappedMappings ==
    {ScenarioReply(PyStr(c)) : c \in {<<"H","I","G","H">>, HIGH, LOW}}
    \cup {ScenarioReply(PyNone), PyDict(SubSeq(ScenarioReply(PyNone).v, 1, 4))}

Commas == {"none", "direct", "newline"}

\* the text of a reply: the mapping serialized, a comma put before its
\* closing brace, the whole put in a code fence
ReplyText(mapping, compact, comma, fenced) ==
    LET document == IF compact THEN compact_dumps(mapping) ELSE json_dumps(mapping)
        body     == CASE comma = "none"    -> document
                      [] comma = "direct"  -> TrailingComma(document, <<>>)
                      [] comma = "newline" -> TrailingComma(document, <<"\n">>)
    IN  IF fenced THEN Fenced(body) ELSE body

ReplyInput(mapping, compact, comma, fenced) ==
    [fn |-> "reply", mapping |-> mapping, compact |-> compact, comma |-> comma,
     fenced |-> fenced, text |-> ReplyText(mapping, compact, comma, fenced)]

\* each of the five fields absent or a string
FieldTexts == {<<>>, <<" ">>, <<"x">>, <<" ", "x", " ">>}
FieldValues == {Absent} \cup {PyStr(text) : text \in FieldTexts}
ConfidenceValues ==
    {Absent} \cup {PyStr(text) : text \in {<<>>, <<" ">>, <<"H","i","g","h">>, LOW}}

\* the mapping with the pairs of the fields that are present
RECURSIVE present(_)
present(pairs) ==
    IF pairs = <<>> THEN <<>>
    ELSE IF Head(pairs).v = Absent THEN present(Tail(pairs))
    ELSE <<Head(pairs)>> \o present(Tail(pairs))

ExtractedFields ==
    {VerseReply(title, verse_malayalam, verse_english, alt_text, confidence) :
        title \in FieldValues, verse_malayalam \in FieldValues,
        verse_english \in FieldValues, alt_text \in FieldValues,
        confidence \in ConfidenceValues}

\* JSON documents: objects and arrays of one or two members
MemberValues ==
    {PyInt(<<"1">>), PyStr(<<"x">>), PyNone, PyBool(TRUE), PyList(<<>>), PyDict(<<>>)}

Documents ==
    {PyDict(<<[k |-> <<"a">>, v |-> x]>>) : x \in MemberValues}
    \cup {PyDict(<<[k |-> <<"a">>, v |-> x], [k |-> <<"b">>, v |-> y]>>) :
             x \in MemberValues, y \in MemberValues}
    \cup {PyList(<<x>>) : x \in MemberValues}
    \cup {PyList(<<x, y>>) : x \in MemberValues, y \in MemberValues}

\* where the closing brace stands after the inserted comma: directly after
\* it, on the next line, or on the next line behind two spaces
Gaps == {"direct", "newline", "indented"}
GapText(gap) ==
    CASE gap = "direct"   -> <<>>
      [] gap = "newline"  -> <<"\n">>
      [] gap = "indented" -> <<"\n", " ", " ">>

\* a field as the formatting functions receive it: None or a string
ArgumentValues == {PyNone} \cup {PyStr(text) : text \in FieldTexts \cup Texts(MaxTextLen)}

\* decoded values that are no mapping with a required key
OtherValues ==
    {PyList(<<>>), PyList(<<PyInt(<<"1">>), PyDict(<<>>)>>), PyInt(<<"0">>),
     PyInt(<<"5">>), PyStr(<<>>), PyStr(<<"x">>), PyBool(TRUE), PyBool(FALSE), PyNone,
     PyDict(<<>>), PyDict(<<[k |-> <<"n","o","t","e">>, v |-> PyStr(<<"x">>)]>>)}

\* what a key of a decoded mapping holds, if it is there
KeyValues == {Absent, PyNone, PyStr(<<"x">>), PyInt(<<"1">>)}

\* mappings over the required keys, with or without a sixth key
DecodedMappings(extra) ==
    {PyDict(present(VerseReply(title, verse_malayalam, verse_english, alt_text,
                               confidence).v) \o extra) :
        title \in KeyValues, verse_malayalam \in KeyValues,
        verse_english \in KeyValues, alt_text \in KeyValues,
        confidence \in KeyValues}

\* the texts handed to clean_json_string, of at most MaxCleanLen characters
MaxCleanLen == 5
CleanAlphabet == {BACKTICK, ",", "\n", " ", "}", "]", "a"}

RECURSIVE StringsOver(_, _)
StringsOver(alphabet, n) ==
    IF n = 0 THEN {<<>>}
    ELSE StringsOver(alphabet, n - 1)
         \cup {Append(t, c) : t \in StringsOver(alphabet, n - 1), c \in alphabet}

InitFormatter ==
    /\ InitHarness
    /\ \/ \E mapping \in ReplyMappings :
             fn_in = ReplyInput(mapping, FALSE, "none", FALSE)
       \/ \E mapping \in WrappedMappings, compact \in BOOLEAN, comma \in Commas,
               fenced \in BOOLEAN :
             fn_in = ReplyInput(mapping, compact, comma, fenced)
       \/ \E fields \in ExtractedFields : fn_in = [fn |-> "format", fields |-> fields]
       \/ \E text \in StringsOver(CleanAlphabet, MaxCleanLen) :
             fn_in = [fn |-> "clean_json_string", text |-> text]
       \/ \E value \in OtherValues :
             fn_in = [fn |-> "decode", value |-> value, text |-> json_dumps(value)]
       \/ \E extra \in {<<>>, <<[k |-> <<"n","o","t","e">>, v |-> PyStr(<<"x">>)]>>} :
             \E data \in DecodedMappings(extra) :
                fn_in = [fn |-> "ensure_required_fields", data |-> data]
       \/ \E title \in ArgumentValues : fn_in = [fn |-> "format_title", title |-> title]
       \/ \E verse_malayalam \in ArgumentValues, verse_english \in ArgumentValues :
             fn_in = [fn |-> "format_description", verse_malayalam |-> verse_malayalam,
                      verse_english |-> verse_english]
       \/ \E document \in Documents, compact \in BOOLEAN, gap \in Gaps :
             fn_in = [fn |-> "repair", document |-> document, compact |-> compact,
                      gap |-> gap,
                      text |-> TrailingComma(IF compact THEN compact_dumps(document)
                                             ELSE json_dumps(document), GapText(gap))]

\* parse_and_format_gemini_output on the text of the reply
ApplyReply ==
    /\ fn_in.fn = "reply"
    /\ fn_out = Idle
    /\ fn_out' = [fn |-> "reply", record |-> parse_and_format_gemini_output(fn_in.text)]
    /\ UNCHANGED <<appVars, fn_in>>

\* the formatting stage on the fields that are present
ApplyFormat ==
    /\ fn_in.fn = "format"
    /\ fn_out = Idle
    /\ fn_out' = [fn |-> "format", record |-> format_parsed(PyDict(present(fn_in.fields.v)))]
    /\ UNCHANGED <<appVars, fn_in>>

\* clean_json_string, then parse_json_safely
ApplyRepair ==
    /\ fn_in.fn = "repair"
    /\ fn_out = Idle
    /\ fn_out' = [fn |-> "repair",
                  decoded |-> parse_json_safely(clean_json_string(fn_in.text),
                                                fn_in.text)]
    /\ UNCHANGED <<appVars, fn_in>>

ApplyFormatTitle ==
    /\ fn_in.fn = "format_title"
    /\ fn_out = Idle
    /\ fn_out' = [fn |-> "format_title", title |-> format_title(fn_in.title)]
    /\ UNCHANGED <<appVars, fn_in>>

\* format_description: the text returned and whether st.warning was called
ApplyFormatDescription ==
    /\ fn_in.fn = "format_description"
    /\ fn_out = Idle
    /\ fn_out' = [fn |-> "format_description",
                  description |-> format_description(fn_in.verse_malayalam,
                                                     fn_in.verse_english),
                  warned |-> description_warns(fn_in.verse_malayalam,
                                               fn_in.verse_english)]
    /\ UNCHANGED <<appVars, fn_in>>

\* parse_and_format_gemini_output on the serialization of the value
ApplyDecode ==
    /\ fn_in.fn = "decode"
    /\ fn_out = Idle
    /\ fn_out' = [fn |-> "decode", record |-> parse_and_format_gemini_output(fn_in.text)]
    /\ UNCHANGED <<appVars, fn_in>>

ApplyEnsureRequiredFields ==
    /\ fn_in.fn = "ensure_required_fields"
    /\ fn_out = Idle
    /\ fn_out' = [fn |-> "ensure_required_fields",
                  data |-> ensure_required_fields(fn_in.data)]
    /\ UNCHANGED <<appVars, fn_in>>

ApplyCleanJsonString ==
    /\ fn_in.fn = "clean_json_string"
    /\ fn_out = Idle
    /\ fn_out' = [fn |-> "clean_json_string", text |-> clean_json_string(fn_in.text)]
    /\ UNCHANGED <<appVars, fn_in>>

NextFormatter ==
    \/ ApplyCleanJsonString
    \/ ApplyDecode
    \/ ApplyEnsureRequiredFields
    \/ ApplyReply
    \/ ApplyFormat
    \/ ApplyRepair
    \/ ApplyFormatTitle
    \/ ApplyFormatDescription

SpecFormatter == InitFormatter /\ [][NextFormatter]_vars

\* C3: a fenced reply whose object has the five keys, the confidence "HIGH"
\* and a comma directly before the closing brace is parsed: the record is not
\* empty, its title is the reply's title followed by the brand suffix, its
\* confidence is high, and the gate lets it through.
C3_ScenarioReplyParses ==
    (/\ fn_out.fn = "reply"
     /\ fn_in.fenced
     /\ fn_in.comma = "direct"
     /\ fn_in.mapping = ScenarioReply(PyStr(<<"H","I","G","H">>)))
    => /\ fn_out.record # EmptyDict
       /\ fn_out.record.title = SCENARIO_TITLE \o TITLE_SUFFIX
       /\ fn_out.record.confidence_level = HIGH
       /\ CanPublish(fn_out.record)

\* C4: for a reply that is the serialization of a mapping whose confidence is
\* a casing of high, medium or low, or null, or absent, the record has a
\* confidence of exactly high, medium or low, and low when it was absent
\* or null.
C4_ConfidenceNormalized ==
    LET confidence == dict_get(fn_in.mapping, KEY_CONFIDENCE, Absent)
        given      == confidence \notin {Absent, PyNone}
    IN  (/\ fn_out.fn = "reply"
         /\ fn_in.comma = "none"
         /\ given => \E level \in {HIGH, MEDIUM, LOW} :
                         SameIgnoringCase(confidence.v, level))
        => /\ fn_out.record # EmptyDict
           /\ fn_out.record.confidence_level \in {HIGH, MEDIUM, LOW}
           /\ ~given => fn_out.record.confidence_level = LOW

\* C5: the formatting stage returns a record of four fields for every
\* ExtractedFields value, each field absent or a string.
C5_FormatterNeverFails ==
    fn_out.fn = "format" =>
        DOMAIN fn_out.record = {"t", "title", "description", "alt_text", "confidence_level"}

\* C13: a document serialized, a comma inserted before its final closing
\* brace or bracket, then repaired and decoded, is the document again.
C13_TrailingCommaRoundTrip ==
    fn_out.fn = "repair" => fn_out.decoded = fn_in.document

\* None, or the empty string
AbsentOrEmpty(value) == value = PyNone \/ value = PyStr(<<>>)

\* None, or a string without a non-whitespace character
AbsentOrBlank(value) == value = PyNone \/ ~NonBlank(value.v)

\* C14: format_title returns the trimmed title followed by the brand suffix
\* when the title has a non-whitespace character, and the default title for
\* an absent, empty or whitespace-only title.
C14_TitleDefaultWhenBlank ==
    fn_out.fn = "format_title" =>
        fn_out.title = IF AbsentOrBlank(fn_in.title) THEN PyStr(DEFAULT_TITLE)
                       ELSE PyStr(strip(fn_in.title.v) \o TITLE_SUFFIX)

\* C15: format_description returns the trimmed verses around the English
\* label, followed by the promotional suffix, when both verses are present
\* and non-empty; otherwise it returns the default description and warns.
\* The formatting stage still returns a four-field record, with the default
\* description, when only a verse is missing.
C15_DescriptionComposition ==
    /\ fn_out.fn = "format_description" =>
          LET missing == AbsentOrEmpty(fn_in.verse_malayalam)
                         \/ AbsentOrEmpty(fn_in.verse_english)
          IN  /\ fn_out.warned <=> missing
              /\ fn_out.description =
                    IF missing THEN PyStr(DEFAULT_DESCRIPTION)
                    ELSE PyStr(strip(fn_in.verse_malayalam.v)
                               \o <<"\n", "\n", "E", "n", "g", "l", "i", "s", "h", ":", " ">>
                               \o strip(fn_in.verse_english.v) \o WHATSAPP_LINK)
    /\ (/\ fn_out.fn = "format"
        /\ fn_in.fields.v[5].v # Absent
        /\ \E i \in {2, 3} : fn_in.fields.v[i].v \in {Absent, PyStr(<<>>)})
       => /\ DOMAIN fn_out.record
               = {"t", "title", "description", "alt_text", "confidence_level"}
          /\ fn_out.record.description = DEFAULT_DESCRIPTION

\* the Malayalam verse was absent, the English one given: the stage returned
\* the record with the default description
C15_Witness ==
    /\ fn_out.fn = "format"
    /\ fn_in.fields.v[2].v = Absent
    /\ fn_in.fields.v[3].v = PyStr(<<"x">>)
    /\ fn_in.fields.v[5].v = PyStr(<<"H", "i", "g", "h">>)
    /\ fn_out.record.description = DEFAULT_DESCRIPTION
    /\ fn_out.record.confidence_level = HIGH

\* C16: a reply that decodes to a value that is no mapping, or to the empty
\* mapping, gives the record of the defaults: the default title, the default
\* description, an empty alt text and the confidence low.
C16_NonMappingGivesDefaults ==
    (fn_out.fn = "decode" /\ (fn_in.value.t # "dict" \/ fn_in.value.v = <<>>))
    => fn_out.record = Record(DEFAULT_TITLE, DEFAULT_DESCRIPTION, <<>>, LOW)

\* C17: ensure_required_fields returns a mapping whose keys are the five
\* required keys, each with the value the source mapping holds for it, or
\* None when the source mapping lacks it; no other key is carried over.
C17_FieldDefaulting ==
    fn_out.fn = "ensure_required_fields" =>
        /\ fn_out.data.t = "dict"
        /\ Len(fn_out.data.v) = Len(REQUIRED_KEYS)
        /\ \A i \in 1..Len(REQUIRED_KEYS) :
              LET at == {j \in 1..Len(fn_in.data.v) : fn_in.data.v[j].k = REQUIRED_KEYS[i]}
              IN  /\ fn_out.data.v[i].k = REQUIRED_KEYS[i]
                  /\ fn_out.data.v[i].v =
                        IF at = {} THEN PyNone
                        ELSE fn_in.data.v[CHOOSE j \in at : TRUE].v

\* a mapping with the title, the confidence and a sixth key only
C17_Witness ==
    /\ fn_out.fn = "ensure_required_fields"
    /\ Len(fn_in.data.v) = 3
    /\ fn_in.data.v[1] = [k |-> KEY_TITLE, v |-> PyStr(<<"x">>)]
    /\ fn_in.data.v[2] = [k |-> KEY_CONFIDENCE, v |-> PyInt(<<"1">>)]
    /\ fn_in.data.v[3].k = <<"n","o","t","e">>
    /\ fn_out.data.v[1].v = PyStr(<<"x">>)
    /\ fn_out.data.v[2].v = PyNone
    /\ fn_out.data.v[5].v = PyInt(<<"1">>)

\* the text has three backticks at its start or at its end
HasFence(text) ==
    /\ Len(text) >= 3
    /\ \/ \A i \in 1..3 : text[i] = BACKTICK
       \/ \A i \in Len(text) - 2..Len(text) : text[i] = BACKTICK

\* the text has a comma that only whitespace separates from a closing brace
\* or bracket
HasTrailingComma(text) ==
    \E i, j \in 1..Len(text) :
        /\ i < j
        /\ text[i] = ","
        /\ text[j] \in {"}", "]"}
        /\ \A m \in i + 1..j - 1 : text[m] \in Whitespace

\* C19: clean_json_string returns unchanged every text that has no code
\* fence at its start or end, no whitespace at its start or end, and no
\* trailing comma before a closing brace or bracket.
C19_CleanIsNoOpOnPlainText ==
    (/\ fn_out.fn = "clean_json_string"
     /\ ~HasFence(fn_in.text)
     /\ ~HasTrailingComma(fn_in.text)
     /\ fn_in.text # <<>> => /\ fn_in.text[1] \notin Whitespace
                             /\ fn_in.text[Len(fn_in.text)] \notin Whitespace)
    => fn_out.text = fn_in.text

\* a text with three backticks in its middle came back unchanged
C19_Witness ==
    /\ fn_out.fn = "clean_json_string"
    /\ fn_in.text = <<"a", BACKTICK, BACKTICK, BACKTICK>> \o <<"a">>
    /\ fn_out.text = fn_in.text

\* --- the Publisher Client --------------------------------------------------
\* the status codes at and next to the borders of the five classes
StatusCodes ==
    {100, 101, 199, 200, 201, 204, 299, 300, 301, 304, 399, 400, 401, 404, 429,
     499, 500, 503, 599}

PublisherResponses ==
    {RequestException}
    \cup {Response(status_code, json_body) :
             status_code \in StatusCodes, json_body \in BOOLEAN}

PublisherRecords ==
    {Record(title, description, alt_text, HIGH) :
        title \in EditTexts, description \in EditTexts, alt_text \in EditTexts}

PublisherFiles == Images \cup {OSError}

InitPublisher ==
    /\ InitHarness
    /\ \/ \E data \in PublisherRecords, file \in PublisherFiles,
               response \in PublisherResponses :
             fn_in = [fn |-> "upload_to_pinterest", data |-> data, file |-> file,
                      response |-> response]
       \/ \E data \in PublisherRecords, file \in PublisherFiles,
               response \in AppResponses, access_token \in {"", "ui-token"},
               board_id \in {"", "ui-board"}, env \in {EnvSet, EnvEmpty} :
             fn_in = [fn |-> "upload_pin", data |-> data, file |-> file,
                      response |-> response, access_token |-> access_token,
                      board_id |-> board_id, env |-> env]

ApplyUploadToPinterest ==
    /\ fn_in.fn = "upload_to_pinterest"
    /\ fn_out = Idle
    /\ fn_out' =
           [fn |-> "upload_to_pinterest",
            outcome |-> upload_to_pinterest(UPLOADED_IMAGE, fn_in.data, "ui-token",
                                            "ui-board", DEFAULT_LINK, fn_in.file,
                                            fn_in.response)]
    /\ UNCHANGED <<appVars, fn_in>>

\* PinterestUploader(access_token, board_id).upload_pin(image_path, data)
ApplyUploadPin ==
    /\ fn_in.fn = "upload_pin"
    /\ fn_out = Idle
    /\ fn_out' =
           [fn |-> "upload_pin",
            outcome |-> upload_pin(PinterestUploader(fn_in.access_token,
                                                     fn_in.board_id, fn_in.env),
                                   UPLOADED_IMAGE, fn_in.data,
                                   fn_in.env.whatsapp_link, fn_in.file,
                                   fn_in.response)]
    /\ UNCHANGED <<appVars, fn_in>>

NextPublisher == ApplyUploadToPinterest \/ ApplyUploadPin

SpecPublisher == InitPublisher /\ [][NextPublisher]_vars

\* C7: when the title, the description or the alt text of the record is
\* empty, or the image file cannot be read, upload_to_pinterest returns
\* False and sends no request.
C7_NoRequestWhenPreconditionFails ==
    (/\ fn_out.fn \in {"upload_to_pinterest", "upload_pin"}
     /\ \/ fn_in.data.title = <<>>
        \/ fn_in.data.description = <<>>
        \/ fn_in.data.alt_text = <<>>
        \/ fn_in.file = OSError)
    => ~fn_out.outcome.result /\ fn_out.outcome.posts = <<>>

\* the alt text alone was empty, the file readable and the service willing
C7_Witness ==
    /\ fn_out.fn = "upload_to_pinterest"
    /\ fn_in.data.title = <<"x">>
    /\ fn_in.data.description = <<" ">>
    /\ fn_in.data.alt_text = <<>>
    /\ fn_in.file \in Images
    /\ fn_in.response = Response(201, TRUE)
    /\ ~fn_out.outcome.result
    /\ fn_out.outcome.posts = <<>>

\* C8: an attempt that the service answered returns True exactly when the
\* status is 2xx, whatever the body of the response.
C8_SuccessIffStatus2xx ==
    (/\ fn_out.fn = "upload_to_pinterest"
     /\ fn_out.outcome.posts # <<>>
     /\ ~fn_in.response.raised)
    => (fn_out.outcome.result <=>
           (200 <= fn_in.response.status_code /\ fn_in.response.status_code <= 299))

====
